---- MODULE Spec2Model ----
(***************************************************************************)
(* Textbook RSA arithmetic of crypto/asymmetric/rsa/rsa.py and its older   *)
(* copy crypto/rsa.py: egcd, modinv, lcm, foldl, foldl1, prod, compute_n,  *)
(* compute_phi, compute_d, encrypt and decrypt.                            *)
(*                                                                         *)
(* Every function is pure, so a behaviour is one call: Init draws the      *)
(* function and its arguments, the function's action computes the outcome. *)
(* One caller step, SendBack, feeds the ciphertext of a finished encrypt   *)
(* to decrypt with the same e and factors (the round trip).                *)
(*                                                                         *)
(* An outcome is a record: a returned value, a raised exception, or        *)
(* Python's None (a function that falls off its end).                      *)
(***************************************************************************)
EXTENDS Integers, Sequences, FiniteSets, TLC

VARIABLES
    pc,      \* "call": the call is about to run, "done": it has finished
    op,      \* the function called
    args,    \* its arguments, a record
    result,  \* its outcome once pc = "done"
    plain    \* the plaintext behind args.ct when decrypt runs on SendBack

vars == <<pc, op, args, result, plain>>

---------------------------------------------------------------------------
(* Bounds of the input sets. *)

MaxInt == 6        \* egcd, modinv, lcm arguments range over -MaxInt..MaxInt
MaxFactor == 5     \* factors of compute_n, compute_phi range over -1..MaxFactor
MaxLen == 3        \* and their lists have <= MaxLen factors
MaxKeyLen == 2     \* factor lists of compute_d, encrypt, decrypt have <= MaxKeyLen
MaxE == 5          \* public exponents range over -1..MaxE
MaxPhi == 4        \* supplied phi ranges over -1..MaxPhi
MaxMsg == 4        \* messages supplied directly range over 0..MaxMsg

---------------------------------------------------------------------------
(* Outcomes. *)

Val(v) == [kind |-> "value", val |-> v, err |-> ""]
Err(e) == [kind |-> "error", val |-> 0, err |-> e]
NoneResult == [kind |-> "None", val |-> 0, err |-> ""]
Pending == [kind |-> "pending", val |-> 0, err |-> ""]

IsVal(r) == r.kind = "value"
IsErr(r) == r.kind = "error"

---------------------------------------------------------------------------
(* Python's integer operators. *)

\* x // y, y # 0: the floor of the quotient, for either sign of y
PyFloorDiv(x, y) == IF y > 0 THEN x \div y ELSE (0 - x) \div (0 - y)

\* x % y, y # 0: the remainder has the sign of y
PyMod(x, y) == x - y * PyFloorDiv(x, y)

Abs(x) == IF x < 0 THEN 0 - x ELSE x

\* math.gcd: the non-negative greatest common divisor, gcd(0, 0) = 0
RECURSIVE gcd(_, _)
gcd(a, b) == IF b = 0 THEN Abs(a) ELSE gcd(b, PyMod(a, b))

---------------------------------------------------------------------------
(* Number theory kernel. *)

\* a mutant of egcd: the quotient term is added instead of subtracted
RECURSIVE egcd_addquot(_, _)
egcd_addquot(a, b) ==
    IF a = 0 THEN <<b, 0, 1>>
    ELSE LET r == egcd_addquot(PyMod(b, a), a)
             g == r[1]
             v == r[2]
             u == r[3]
         IN  <<g, u + PyFloorDiv(b, a) * v, v>>

RECURSIVE egcd(_, _)
egcd(a, b) ==
    IF a = 0 THEN <<b, 0, 1>>
    ELSE LET r == egcd(PyMod(b, a), a)
             g == r[1]
             v == r[2]
             u == r[3]
         IN  <<g, u - PyFloorDiv(b, a) * v, v>>

\* a mutant of modinv: the Bezout coefficient is returned without "% m"
modinv_noreduce(a, m) ==
    LET r == egcd(a, m)
        g == r[1]
        u == r[2]
    IN  IF g # 1 THEN Err("NotCoprime")
        ELSE IF m = 0 THEN Err("ZeroDivisionError")
        ELSE Val(u)

modinv(a, m) ==
    LET r == egcd(a, m)
        g == r[1]
        u == r[2]
    IN  IF g # 1 THEN Err("NotCoprime")
        ELSE IF m = 0 THEN Err("ZeroDivisionError")
        ELSE Val(PyMod(u, m))

lcm(a, b) ==
    IF gcd(a, b) = 0 THEN Err("ZeroDivisionError")
    ELSE Val(PyFloorDiv(a * b, gcd(a, b)))

---------------------------------------------------------------------------
(* Fold helpers. The operation a fold is given is one of the two binary   *)
(* functions the module folds with, passed by name. An operation returns   *)
(* an outcome (lcm can raise); the loop of foldl stops at the first        *)
(* exception.                                                              *)

\* lambda a,b: a*b
mul(a, b) == Val(a * b)

\* operation(accumulator, elem)
apply(operation, a, b) == IF operation = "lcm" THEN lcm(a, b) ELSE mul(a, b)

foldl(operation, accumulator, iterable) ==
    LET acc[i \in 0..Len(iterable)] ==
            IF i = 0 THEN Val(accumulator)
            ELSE IF IsErr(acc[i - 1]) THEN acc[i - 1]
            ELSE apply(operation, acc[i - 1].val, iterable[i])
    IN  acc[Len(iterable)]

\* crypto/asymmetric/rsa/rsa.py: return foldl(operation, next(generator), generator)
foldl1(operation, generator) ==
    IF generator = <<>> THEN Err("StopIteration")
    ELSE foldl(operation, Head(generator), Tail(generator))

\* crypto/rsa.py: the same call without "return"
rsa_foldl1(operation, generator) ==
    IF generator = <<>> THEN Err("StopIteration")
    ELSE LET r == foldl(operation, Head(generator), Tail(generator))
         IN  IF IsErr(r) THEN r ELSE NoneResult

prod(factors) == foldl("mul", 1, factors)

\* map(lambda x: x-1, factors)
minus1(factors) == [i \in 1..Len(factors) |-> factors[i] - 1]

---------------------------------------------------------------------------
(* RSA parameter derivation. *)

PHI_EULER_TOTIENT == "euler"
PHI_CARMICHAEL_TOTIENT == "carmichael"

\* method.lower() on the method names the model supplies
lower(method) ==
    CASE method = "Euler" -> "euler"
      [] method = "CARMICHAEL" -> "carmichael"
      [] OTHER -> method

compute_n(factors) ==
    IF Len(factors) < 1 THEN Err("InvalidInput")
    ELSE LET n == prod(factors).val
         IN  IF n < 1 THEN Err("InvalidInput") ELSE Val(n)

rsa_compute_n(factors) ==
    IF Len(factors) < 1 \/ \E i \in 1..Len(factors) : factors[i] < 1
    THEN Err("InvalidInput")
    ELSE prod(factors)

\* a mutant of compute_phi: Carmichael folds with the product instead of lcm
compute_phi_prodfold(factors, method) ==
    IF lower(method) \notin {PHI_EULER_TOTIENT, PHI_CARMICHAEL_TOTIENT}
    THEN Err("InvalidMethod")
    ELSE IF Len(factors) < 1 THEN Err("InvalidInput")
    ELSE IF lower(method) = PHI_EULER_TOTIENT THEN prod(minus1(factors))
    ELSE foldl1("mul", minus1(factors))

\* a mutant of compute_phi: the totient is taken over the factors themselves
compute_phi_nominus(factors, method) ==
    IF lower(method) \notin {PHI_EULER_TOTIENT, PHI_CARMICHAEL_TOTIENT}
    THEN Err("InvalidMethod")
    ELSE IF Len(factors) < 1 THEN Err("InvalidInput")
    ELSE IF lower(method) = PHI_EULER_TOTIENT THEN prod(factors)
    ELSE foldl1("lcm", factors)

compute_phi(factors, method) ==
    IF lower(method) \notin {PHI_EULER_TOTIENT, PHI_CARMICHAEL_TOTIENT}
    THEN Err("InvalidMethod")
    ELSE IF Len(factors) < 1 THEN Err("InvalidInput")
    ELSE IF lower(method) = PHI_EULER_TOTIENT THEN prod(minus1(factors))
    ELSE foldl1("lcm", minus1(factors))

rsa_compute_phi(factors, method) ==
    IF lower(method) \notin {"euler", "carmichael"}
    THEN Err("InvalidMethod")
    ELSE IF Len(factors) < 1 \/ \E i \in 1..Len(factors) : factors[i] < 1
    THEN Err("InvalidInput")
    ELSE IF lower(method) = "euler" THEN prod(minus1(factors))
    ELSE rsa_foldl1("lcm", minus1(factors))

\* the factors argument of compute_d: a list, or None (its default)
Some(list) == [isNone |-> FALSE, seq |-> list]
None == [isNone |-> TRUE, seq |-> <<>>]

compute_d(e, phi, factors, phi_method) ==
    LET p == IF phi < 1
             THEN IF factors.isNone THEN Err("TypeError")
                  ELSE compute_phi(factors.seq, phi_method)
             ELSE Val(phi)
    IN  IF IsErr(p) THEN p
        ELSE IF e < 1 THEN Err("InvalidExponent")
        ELSE modinv(e, p.val)

---------------------------------------------------------------------------
(* RSA transform. *)

\* b^e mod m for e >= 0 and m # 0, by squaring, reduced at every step
RECURSIVE ModExp(_, _, _)
ModExp(b, e, m) ==
    IF e = 0 THEN PyMod(1, m)
    ELSE LET h == ModExp(b, e \div 2, m)
             sq == PyMod(h * h, m)
         IN  IF e % 2 = 0 THEN sq ELSE PyMod(b * sq, m)

\* the builtin pow(b, e, m): a negative e raises the inverse of b to -e
pow(b, e, m) ==
    IF m = 0 THEN Err("ValueError")
    ELSE IF e >= 0 THEN Val(ModExp(b, e, m))
    ELSE LET inv == {x \in 0..(Abs(m) - 1) : PyMod(b * x, Abs(m)) = PyMod(1, Abs(m))}
         IN  IF inv = {} THEN Err("ValueError")
             ELSE Val(ModExp(CHOOSE x \in inv : TRUE, 0 - e, m))

\* a mutant of decrypt: the public exponent is used where d belongs
decrypt_pubexp(ct, d, n, e, factors, phi, phi_method) ==
    LET nn == IF n < 1 THEN compute_n(factors) ELSE Val(n)
    IN  IF IsErr(nn) THEN nn ELSE pow(ct, e, nn.val)

decrypt(ct, d, n, e, factors, phi, phi_method) ==
    LET nn == IF n < 1 THEN compute_n(factors) ELSE Val(n)
        dd == IF d < 1
              THEN compute_d(e, phi, Some(factors), PHI_EULER_TOTIENT)
              ELSE Val(d)
    IN  IF IsErr(nn) THEN nn
        ELSE IF IsErr(dd) THEN dd
        ELSE pow(ct, dd.val, nn.val)

encrypt(pt, e, n, factors) ==
    LET nn == IF n < 1 THEN compute_n(factors) ELSE Val(n)
    IN  IF IsErr(nn) THEN nn ELSE pow(pt, e, nn.val)

---------------------------------------------------------------------------
(* The inputs a call is drawn from. *)

\* the value the signatures use for "not supplied" (d, n, e, phi)
UNSET == -1

SeqsUpTo(S, k) == UNION {[1..j -> S] : j \in 0..k}

Ints == (0 - MaxInt)..MaxInt
FactorValues == (0 - 1)..MaxFactor
\* the factor lists of the documented examples: p = 61, q = 53 and 3, 5, 7
ExampleLists == {<<61, 53>>, <<3, 5, 7>>}
FactorLists == SeqsUpTo(FactorValues, MaxLen) \cup ExampleLists
\* key factors: non-positive values, 1, and primes up to 11 (phi = 10 is the
\* least totient for which e and d differ)
KeyFactorValues == {0 - 1, 0, 1, 2, 3, 5, 11}
KeyLists == SeqsUpTo(KeyFactorValues, MaxKeyLen)
FoldLists == SeqsUpTo(FactorValues, MaxLen)
Exponents == (0 - 1)..MaxE
Methods == {"euler", "carmichael", "Euler", "CARMICHAEL", "rsa"}
KeyMethods == {"euler", "carmichael", "rsa"}
FoldOps == {"mul", "lcm"}

\* plaintexts offered to encrypt: 0..MaxMsg and every residue of the modulus
Plaintexts(n, factors) ==
    LET nn == IF n < 1 THEN compute_n(factors) ELSE Val(n)
    IN  0..(IF IsVal(nn) /\ nn.val - 1 > MaxMsg THEN nn.val - 1 ELSE MaxMsg)

KernelInputs(o) ==
    CASE o \in {"egcd", "lcm"} -> [a : Ints, b : Ints]
      [] o = "modinv" -> [a : Ints, m : Ints]
      [] o = "foldl" -> [operation : FoldOps, accumulator : {0, 1}, iterable : FoldLists]
      [] o \in {"foldl1", "rsa_foldl1"} -> [operation : FoldOps, generator : FoldLists]

DeriveInputs(o) ==
    CASE o \in {"compute_n", "rsa_compute_n"} -> [factors : FactorLists]
      [] o \in {"compute_phi", "rsa_compute_phi"} -> [factors : FactorLists, method : Methods]
      [] o = "compute_d" ->
            [e : Exponents, phi : UNSET..MaxPhi,
             factors : {None} \cup {Some(l) : l \in KeyLists}, phi_method : KeyMethods]

TransformInputs(o) ==
    CASE o = "encrypt" ->
            {[pt |-> x.pt, e |-> x.k.e, n |-> x.k.n, factors |-> x.k.factors] :
                x \in UNION {[pt : Plaintexts(k.n, k.factors), k : {k}] :
                                k \in [e : Exponents, n : {UNSET, 15}, factors : KeyLists]}}
      [] o = "decrypt" ->
            [ct : 0..MaxMsg, d : {UNSET, 3}, n : {UNSET, 15}, e : Exponents,
             factors : KeyLists, phi : {UNSET, 4},
             phi_method : {PHI_EULER_TOTIENT, PHI_CARMICHAEL_TOTIENT}]

KernelOps == {"egcd", "modinv", "lcm", "foldl", "foldl1", "rsa_foldl1"}
DeriveOps == {"compute_n", "rsa_compute_n", "compute_phi", "rsa_compute_phi", "compute_d"}
TransformOps == {"encrypt", "decrypt"}

---------------------------------------------------------------------------
(* The calls. *)

Start(ops, Inputs(_)) ==
    /\ pc = "call"
    /\ result = Pending
    /\ plain = <<>>
    /\ op \in ops
    /\ args \in Inputs(op)

Return(o, r) ==
    /\ pc = "call"
    /\ op = o
    /\ result' = r
    /\ pc' = "done"
    /\ UNCHANGED <<op, args, plain>>

Egcd == Return("egcd", Val(egcd(args.a, args.b)))

Modinv == Return("modinv", modinv(args.a, args.m))

Lcm == Return("lcm", lcm(args.a, args.b))

Foldl ==
    Return("foldl", foldl(args.operation, args.accumulator, args.iterable))

Foldl1 ==
    Return("foldl1", foldl1(args.operation, args.generator))

RsaFoldl1 ==
    Return("rsa_foldl1", rsa_foldl1(args.operation, args.generator))

ComputeN == Return("compute_n", compute_n(args.factors))

RsaComputeN == Return("rsa_compute_n", rsa_compute_n(args.factors))

ComputePhi == Return("compute_phi", compute_phi(args.factors, args.method))

RsaComputePhi == Return("rsa_compute_phi", rsa_compute_phi(args.factors, args.method))

ComputeD ==
    Return("compute_d", compute_d(args.e, args.phi, args.factors, args.phi_method))

Encrypt == Return("encrypt", encrypt(args.pt, args.e, args.n, args.factors))

Decrypt ==
    Return("decrypt", decrypt(args.ct, args.d, args.n, args.e, args.factors,
                              args.phi, args.phi_method))

\* the caller of the round trip:
\* decrypt(encrypt(m, e, factors=factors), e=e, factors=factors)
SendBack ==
    /\ pc = "done"
    /\ op = "encrypt"
    /\ IsVal(result)
    /\ args.n = UNSET
    /\ pc' = "call"
    /\ op' = "decrypt"
    /\ args' = [ct |-> result.val, d |-> UNSET, n |-> UNSET, e |-> args.e,
                factors |-> args.factors, phi |-> UNSET,
                phi_method |-> PHI_EULER_TOTIENT]
    /\ result' = Pending
    /\ plain' = <<args.pt>>

InitKernel == Start(KernelOps, KernelInputs)
NextKernel == Egcd \/ Modinv \/ Lcm \/ Foldl \/ Foldl1 \/ RsaFoldl1
SpecKernel == InitKernel /\ [][NextKernel]_vars

InitDerive == Start(DeriveOps, DeriveInputs)
NextDerive == ComputeN \/ RsaComputeN \/ ComputePhi \/ RsaComputePhi \/ ComputeD
SpecDerive == InitDerive /\ [][NextDerive]_vars

InitTransform == Start(TransformOps, TransformInputs)
NextTransform == Encrypt \/ Decrypt \/ SendBack
SpecTransform == InitTransform /\ [][NextTransform]_vars

Init == InitKernel \/ InitDerive \/ InitTransform
Next == NextKernel \/ NextDerive \/ NextTransform
Spec == Init /\ [][Next]_vars

---------------------------------------------------------------------------
(* Arithmetic the properties are stated in, defined from divisibility. *)

Divides(d, x) == x % d = 0

Largest(a, b) == IF Abs(a) > Abs(b) THEN Abs(a) ELSE Abs(b)

GreatestCommonDivisor(a, b) ==
    IF a = 0 /\ b = 0 THEN 0
    ELSE LET cds == {d \in 1..Largest(a, b) : Divides(d, a) /\ Divides(d, b)}
         IN  CHOOSE d \in cds : \A c \in cds : c <= d

RECURSIVE ProductOf(_)
ProductOf(list) == IF list = <<>> THEN 1 ELSE Head(list) * ProductOf(Tail(list))

\* of a non-empty list of positive integers
LeastCommonMultiple(list) ==
    LET cms == {m \in 1..ProductOf(list) : \A i \in 1..Len(list) : Divides(list[i], m)}
    IN  CHOOSE m \in cms : \A k \in cms : m <= k

IsPrime(p) == p >= 2 /\ \A k \in 2..(p - 1) : ~Divides(k, p)

AllPrime(list) == \A i \in 1..Len(list) : IsPrime(list[i])

Distinct(list) == \A i, j \in 1..Len(list) : i # j => list[i] # list[j]

Finished(o) == pc = "done" /\ op = o

---------------------------------------------------------------------------
(* Number theory kernel. *)

\* C4: for all a >= 0 and b >= 0, a = 0 and b = 0 included, egcd(a, b) returns
\* (g, u, v) with g = gcd(a, b) and a*u + b*v = g.
C4_EgcdBezout ==
    (Finished("egcd") /\ args.a >= 0 /\ args.b >= 0) =>
        /\ IsVal(result)
        /\ result.val[1] = GreatestCommonDivisor(args.a, args.b)
        /\ args.a * result.val[2] + args.b * result.val[3] = result.val[1]

C4_Witness ==
    /\ Finished("egcd")
    /\ args.a = 4 /\ args.b = 6
    /\ result = Val(<<2, 0 - 1, 1>>)

\* C2 as stated: for all a >= 0 and m >= 1 with gcd(a, m) = 1, modinv(a, m)
\* returns r with 0 <= r < m and (a * r) % m = 1.
C2_ModinvInverse_Stated ==
    (Finished("modinv") /\ args.a >= 0 /\ args.m >= 1
        /\ GreatestCommonDivisor(args.a, args.m) = 1) =>
        /\ IsVal(result)
        /\ 0 <= result.val /\ result.val < args.m
        /\ (args.a * result.val) % args.m = 1

\* C2 as amended: for all a >= 0 and m >= 1 with gcd(a, m) = 1, modinv(a, m)
\* returns r with 0 <= r < m and (a * r) % m = 1 % m, which is 1 for m >= 2
\* and 0 for m = 1.
C2_ModinvInverse ==
    (Finished("modinv") /\ args.a >= 0 /\ args.m >= 1
        /\ GreatestCommonDivisor(args.a, args.m) = 1) =>
        /\ IsVal(result)
        /\ 0 <= result.val /\ result.val < args.m
        /\ (args.a * result.val) % args.m = 1 % args.m

C2_Witness ==
    /\ Finished("modinv")
    /\ args.a = 2 /\ args.m = 5
    /\ result = Val(3)

\* C3: for all integers a and m, zero and negative values included, modinv(a, m)
\* fails if and only if gcd(a, m) # 1, and NotCoprime is its only failure.
C3_ModinvFailsIffNotCoprime ==
    Finished("modinv") =>
        /\ IsErr(result) <=> GreatestCommonDivisor(args.a, args.m) # 1
        /\ IsErr(result) => result.err = "NotCoprime"
        /\ IsErr(result) \/ IsVal(result)

---------------------------------------------------------------------------
(* RSA parameter derivation. *)

AllAtLeast2(list) == \A i \in 1..Len(list) : list[i] >= 2

\* C5: for every non-empty list of factors, each >= 2, compute_phi with method
\* Euler returns the product of the (factor - 1), and with method Carmichael
\* their least common multiple (61, 53 give 3120 and 780; 3, 5, 7 give 48).
C5_ComputePhi ==
    (Finished("compute_phi") /\ args.factors # <<>> /\ AllAtLeast2(args.factors)) =>
        /\ args.method \in {"euler", "Euler"} =>
              result = Val(ProductOf(minus1(args.factors)))
        /\ args.method \in {"carmichael", "CARMICHAEL"} =>
              result = Val(LeastCommonMultiple(minus1(args.factors)))
        /\ (args.factors = <<61, 53>> /\ args.method = "euler") => result = Val(3120)
        /\ (args.factors = <<61, 53>> /\ args.method = "carmichael") => result = Val(780)
        /\ (args.factors = <<3, 5, 7>> /\ args.method = "euler") => result = Val(48)

C5_Witness ==
    /\ Finished("compute_phi")
    /\ args.factors = <<61, 53>> /\ args.method = "carmichael"
    /\ result = Val(780)

\* C6: compute_n fails with InvalidInput when the factor list is empty, when
\* any factor is < 1, or when the product of the factors is non-positive; in
\* every other case it returns the product of the factors.
C6_ComputeN ==
    (pc = "done" /\ op \in {"compute_n", "rsa_compute_n"}) =>
        IF \/ args.factors = <<>>
           \/ \E i \in 1..Len(args.factors) : args.factors[i] < 1
           \/ ProductOf(args.factors) < 1
        THEN result = Err("InvalidInput")
        ELSE result = Val(ProductOf(args.factors))

\* C7: compute_d fails with InvalidExponent whenever e < 1, whatever the other
\* arguments are.
C7_ComputeDInvalidExponent ==
    (Finished("compute_d") /\ args.e < 1) => result = Err("InvalidExponent")

\* C9 as stated: for every factor list and method for which compute_n and
\* compute_phi both return a value, the totient phi satisfies 1 <= phi < n.
C9_TotientRange_Stated ==
    (Finished("compute_phi") /\ IsVal(result) /\ IsVal(compute_n(args.factors))) =>
        /\ 1 <= result.val
        /\ result.val < compute_n(args.factors).val

\* C9 as amended: for every non-empty factor list whose factors are all >= 2
\* and either method, compute_n and compute_phi both return a value and the
\* totient phi satisfies 1 <= phi < n.
C9_TotientRange ==
    (Finished("compute_phi") /\ args.factors # <<>> /\ AllAtLeast2(args.factors)
        /\ lower(args.method) \in {PHI_EULER_TOTIENT, PHI_CARMICHAEL_TOTIENT}) =>
        /\ IsVal(result)
        /\ IsVal(compute_n(args.factors))
        /\ 1 <= result.val
        /\ result.val < compute_n(args.factors).val

C9_Witness ==
    /\ Finished("compute_phi")
    /\ args.factors = <<3, 5>> /\ args.method = "carmichael"
    /\ result = Val(4)
    /\ compute_n(args.factors) = Val(15)

---------------------------------------------------------------------------
(* RSA transform. *)

\* the decrypt call of a round trip has finished: plain holds the message m of
\* decrypt(encrypt(m, e, factors=factors), e=e, factors=factors)
RoundTripDone == Finished("decrypt") /\ plain # <<>>

EulerPhi(factors) == ProductOf(minus1(factors))

\* C1 as stated: for every non-empty sequence of prime factors, every e >= 1
\* with gcd(e, phi) = 1 for the Euler totient phi, and every m with 0 <= m < n,
\* decrypt(encrypt(m, e, factors=factors), e=e, factors=factors) returns m.
C1_RoundTrip_Stated ==
    (RoundTripDone /\ args.factors # <<>> /\ AllPrime(args.factors)
        /\ args.e >= 1
        /\ GreatestCommonDivisor(args.e, EulerPhi(args.factors)) = 1
        /\ 0 <= plain[1] /\ plain[1] < ProductOf(args.factors)) =>
        result = Val(plain[1])

\* C1 as amended: for every non-empty sequence of pairwise distinct prime
\* factors other than the single factor 2 (so that phi > 1), every e >= 1 with
\* gcd(e, phi) = 1 for the Euler totient phi, and every m with 0 <= m < n,
\* decrypt(encrypt(m, e, factors=factors), e=e, factors=factors) returns m.
C1_RoundTrip ==
    (RoundTripDone /\ args.factors # <<>> /\ AllPrime(args.factors)
        /\ Distinct(args.factors) /\ args.factors # <<2>>
        /\ args.e >= 1
        /\ GreatestCommonDivisor(args.e, EulerPhi(args.factors)) = 1
        /\ 0 <= plain[1] /\ plain[1] < ProductOf(args.factors)) =>
        result = Val(plain[1])

\* m = 2 under e = 3 and factors 2, 11: the ciphertext is 8, d = 7 differs from e
C1_Witness ==
    /\ RoundTripDone
    /\ args.factors = <<2, 11>> /\ args.e = 3
    /\ plain = <<2>> /\ args.ct = 8
    /\ result = Val(2)

\* C8: when decrypt is called with d, n and phi unset and with e, a factor list
\* and a phi_method, it returns ct^d mod n for n = compute_n(factors) and
\* d = compute_d(e, factors=factors, phi_method=phi_method), for every accepted
\* factor list.
C8_DecryptUsesPhiMethod ==
    (Finished("decrypt") /\ args.d = UNSET /\ args.n = UNSET /\ args.phi = UNSET
        /\ IsVal(compute_n(args.factors))
        /\ IsVal(compute_d(args.e, UNSET, Some(args.factors), args.phi_method))) =>
        result = pow(args.ct,
                     compute_d(args.e, UNSET, Some(args.factors), args.phi_method).val,
                     compute_n(args.factors).val)

---------------------------------------------------------------------------
(* The two copies of the module. *)

\* C10: in both copies, foldl1(op, sequence) on a non-empty sequence returns
\* foldl(op, first_element, remaining_elements); so the Carmichael totient of
\* rsa_compute_phi equals that of compute_phi for every non-empty factor list.
C10_Foldl1IsFoldl ==
    /\ (pc = "done" /\ op \in {"foldl1", "rsa_foldl1"} /\ args.generator # <<>>) =>
          result = foldl(args.operation, Head(args.generator), Tail(args.generator))
    /\ (Finished("rsa_compute_phi") /\ args.factors # <<>>
          /\ lower(args.method) = PHI_CARMICHAEL_TOTIENT) =>
          result = compute_phi(args.factors, args.method)

====
